---- MODULE Spec2Model ----
(***************************************************************************)
(* Model of the test filler: src/src/ethereum_test_filling_tool/main.py.   *)
(* Filler.fill discovers the tagged callables of the modules below the     *)
(* filler directory, decides for each one whether it may be skipped        *)
(* (skip_filling), submits the others to a thread pool and then writes the *)
(* results, in submission order, from the control thread.                  *)
(*                                                                         *)
(* Strings are sequences of one-character strings, so that `in`, replace,  *)
(* os.path.join and the f-strings are computed as the code computes them.  *)
(***************************************************************************)
EXTENDS Integers, Sequences, FiniteSets, TLC

\* ------------------------------------------------------------------------
\* Bounds of the model
\* ------------------------------------------------------------------------
\* worker limits tried: --max-workers in 1..MaxWorkers
MaxWorkers == 2
\* number of successive runs of the tool
MaxRuns == 2
\* modification times of the files present before the first run: 0..MaxTime
MaxTime == 2

\* ------------------------------------------------------------------------
\* Strings
\* ------------------------------------------------------------------------
SEP == <<"/">>
DOT == <<".">>

\* Python: n in s (substring test)
IsSubstr(n, s) ==
    \E k \in 0..(Len(s) - Len(n)) : SubSeq(s, k + 1, k + Len(n)) = n

\* Python: s.replace(a, b) for one-character a and b
Replace(s, a, b) == [k \in DOMAIN s |-> IF s[k] = a THEN b ELSE s[k]]

\* Python: s.startswith(p), s.endswith(p)
StartsWith(s, p) == Len(s) >= Len(p) /\ SubSeq(s, 1, Len(p)) = p
EndsWith(s, p) == Len(s) >= Len(p) /\ SubSeq(s, Len(s) - Len(p) + 1, Len(s)) = p

\* posixpath.join(a, *p), as os.path.join is called at lines 130, 168, 175,
\* 210, 249 and 252
RECURSIVE JoinFrom(_, _, _)
JoinFrom(path, p, k) ==
    IF k > Len(p) THEN path
    ELSE LET b == p[k]
             nxt == IF StartsWith(b, SEP) THEN b
                    ELSE IF path = <<>> \/ EndsWith(path, SEP) THEN path \o b
                    ELSE path \o SEP \o b
         IN JoinFrom(nxt, p, k + 1)

Join(a, p) == JoinFrom(a, p, 1)

\* Python: ".".join(parts)
RECURSIVE DotJoin(_)
DotJoin(parts) ==
    IF parts = <<>> THEN <<>>
    ELSE IF Len(parts) = 1 THEN parts[1]
    ELSE parts[1] \o DOT \o DotJoin(Tail(parts))

\* ------------------------------------------------------------------------
\* State
\* ------------------------------------------------------------------------
VARIABLES
    opts,       \* self.options: the parsed command line of the runs
    src,        \* modification time of every source file below the filler path
    alias,      \* whether f/vm/vt/ar.py also binds its add as "plus = add"
    broken,     \* dotted name of the module whose loading raises, or None
    io_faults,  \* whether json.dump may raise (a value that does not serialize)
    out,        \* the files below the output directory: path -> [mtime, content]
    dirs,       \* the directories below (and including) the output directory
    clock,      \* the time stamped on a file written now
    run,        \* number of the current run of the tool, 1..MaxRuns
    pc,         \* where the control thread of Filler.fill is
    fillers,    \* the list `fillers`
    meta,       \* __filler_metadata__["module_path"] of every unit
    i,          \* index into `fillers` of the submitting loop (line 165)
    futures,    \* the list `futures`, each with the state of its task
    j,          \* index into `futures` of the collecting loop (line 188)
    error,      \* the exception that ended the run, or "none"
    out0,       \* the output files as the current run found them
    prevError,  \* `error` of the previous run ("none" before the first)
    log,        \* the debug messages of lines 135, 182 and 190, in order
    surfaced,   \* the execution failures future.result() re-raised, in order
    started     \* the futures in the order the workers took them

vars == <<opts, src, alias, broken, io_faults, out, dirs, clock, run, pc,
          fillers, meta, i, futures, j, error, out0, prevError,
          log, surfaced, started>>

\* ------------------------------------------------------------------------
\* The environment of a run: working directory, default option values and
\* the filler tree on disk
\* ------------------------------------------------------------------------
Cwd == <<"/", "w">>
\* --filler-path and --output
FillerPath == <<"f">>
OutputRoot == <<"o">>

PY == <<".", "p", "y">>
JSON == <<".", "j", "s", "o", "n">>

\* os.path.abspath of a relative path
abspath(p) == IF StartsWith(p, SEP) THEN p ELSE Cwd \o SEP \o p

\* names used in the tree
Nvm == <<"v", "m">>
Nvt == <<"v", "t">>
Nar == <<"a", "r">>
Nme == <<"m", "e">>
Nadd == <<"a", "d", "d">>
Nsub == <<"s", "u", "b">>
Nmul == <<"m", "u", "l">>

\* The filler tree:   f/vm/__init__.py      f/vm/ar.py
\*                    f/vm/vt/__init__.py   f/vm/vt/ar.py   f/vm/vt/me.py
\* ListDir(d): the importable entries of directory d, sorted by file name as
\* pkgutil.iter_modules and os.walk deliver them; ispkg = directory holding
\* an __init__.py
ListDir(d) ==
    IF d = abspath(FillerPath) THEN << [name |-> Nvm, ispkg |-> TRUE] >>
    ELSE IF d = abspath(FillerPath) \o SEP \o Nvm
        THEN << [name |-> Nar, ispkg |-> FALSE], [name |-> Nvt, ispkg |-> TRUE] >>
    ELSE IF d = abspath(FillerPath) \o SEP \o Nvm \o SEP \o Nvt
        THEN << [name |-> Nar, ispkg |-> FALSE], [name |-> Nme, ispkg |-> FALSE] >>
    ELSE << >>

\* The objects bound at the top level of the modules. A filler is a callable
\* carrying __filler_metadata__ with its "name"; "helper" is a plain function
\* and "const" a module-level constant.
Objects == {"add1", "sub1", "add2", "mul2", "helper", "const"}

IsCallable(o) == o # "const"
HasFillerMetadata(o) == o \in {"add1", "sub1", "add2", "mul2"}
MetaName(o) ==
    CASE o = "add1" -> Nadd
      [] o = "sub1" -> Nsub
      [] o = "add2" -> Nadd
      [] o = "mul2" -> Nmul
      [] OTHER -> <<>>

Units == {o \in Objects : IsCallable(o) /\ HasFillerMetadata(o)}

\* module.__dict__.values() of the module loaded under a dotted full name, in
\* definition order; a callable bound to two names is there twice
ModuleDict(full) ==
    IF full = Nvm \o DOT \o Nar THEN <<"const", "add1", "helper", "sub1">>
    ELSE IF full = Nvm \o DOT \o Nvt \o DOT \o Nar
        THEN (IF alias THEN <<"add2", "add2">> ELSE <<"add2">>)
    ELSE IF full = Nvm \o DOT \o Nvt \o DOT \o Nme THEN <<"mul2">>
    ELSE << >>

\* the file that defines each unit (the source a change of which makes the
\* unit's fixture stale)
DefiningFile(o) ==
    CASE o \in {"add1", "sub1"} -> abspath(FillerPath) \o SEP \o Nvm \o SEP \o Nar \o PY
      [] o = "add2" -> abspath(FillerPath) \o SEP \o Nvm \o SEP \o Nvt \o SEP \o Nar \o PY
      [] o = "mul2" -> abspath(FillerPath) \o SEP \o Nvm \o SEP \o Nvt \o SEP \o Nme \o PY

\* the package directory (slash form, relative to the filler path) that
\* directly contains the unit's defining module, and that module's name
OwningPackage(o) == IF o \in {"add1", "sub1"} THEN Nvm ELSE Nvm \o SEP \o Nvt
OwningModule(o) == IF o = "mul2" THEN Nme ELSE Nar

SourceFiles == {DefiningFile(o) : o \in Units}

\* ------------------------------------------------------------------------
\* Discovery: find_packages, recursive_iter_modules, find_modules and the
\* collecting loop of Filler.fill
\* ------------------------------------------------------------------------
\* Python: include_pkg is None / test_module, test_case unset. The options
\* are strings or lists, and an unset one is modelled as the empty sequence
\* (argparse's nargs="+" never yields an empty list, and an empty string is
\* falsy like None in the tests at lines 141 and 234).
None == << >>

\* fnmatch.fnmatchcase(name, pat) for the patterns used: "*" and literals
FnMatch(name, pat) == pat = <<"*">> \/ pat = name

\* concatenation of a sequence of sequences
RECURSIVE Flatten(_)
Flatten(ss) == IF ss = <<>> THEN <<>> ELSE Head(ss) \o Flatten(Tail(ss))

\* setuptools' walk below `where`: the dotted names of all package
\* directories, parents before children
RECURSIVE WalkPackages(_, _)
WalkPackages(dir, prefix) ==
    LET subs == SelectSeq(ListDir(dir), LAMBDA e : e.ispkg)
        dotted(e) == IF prefix = <<>> THEN e.name ELSE prefix \o DOT \o e.name
    IN [k \in DOMAIN subs |-> dotted(subs[k])]
       \o Flatten([k \in DOMAIN subs |->
                     WalkPackages(dir \o SEP \o subs[k].name, dotted(subs[k]))])

\* setuptools.find_packages(where, include=...)
find_packages(where, include) ==
    SelectSeq(WalkPackages(where, <<>>),
              LAMBDA p : \E k \in DOMAIN include : FnMatch(p, include[k]))

RECURSIVE IterModulesFrom(_, _, _)
IterModulesFrom(root, package, k) ==
    LET infos == ListDir(Join(root, <<package>>))
    IN IF k > Len(infos) THEN << >>
       ELSE (IF infos[k].ispkg
                THEN IterModulesFrom(root, Join(package, <<infos[k].name>>), 1)
                ELSE << [name |-> infos[k].name,
                         module_finder |-> Join(root, <<package>>),
                         package_path |-> Replace(package, "/", ".")] >>)
            \o IterModulesFrom(root, package, k + 1)

\* recursive_iter_modules(root, package): (info, package_path) pairs
recursive_iter_modules(root, package) == IterModulesFrom(root, package, 1)

\* the body of the inner loop of find_modules, threaded through the
\* `modules` set; items are (package, info, package_path)
\* the loop without the set `modules`: every occurrence is yielded
RECURSIVE YieldFrom_NoDedup(_, _, _, _)
YieldFrom_NoDedup(items, k, modules, include_modules) ==
    IF k > Len(items) THEN << >>
    ELSE LET it == items[k]
             module_full_name == it.package_path \o DOT \o it.name
         IN (IF include_modules = None \/ IsSubstr(include_modules, it.name)
                THEN << [package_name |-> it.package,
                         module_name |-> it.name,
                         loader |-> [name |-> module_full_name,
                                     path |-> it.module_finder \o SEP \o it.name \o PY]] >>
                ELSE << >>)
            \o YieldFrom_NoDedup(items, k + 1, modules, include_modules)

RECURSIVE YieldFrom(_, _, _, _)
YieldFrom(items, k, modules, include_modules) ==
    IF k > Len(items) THEN << >>
    ELSE LET it == items[k]
             module_full_name == it.package_path \o DOT \o it.name
         IN IF module_full_name \notin modules
               THEN (IF include_modules = None \/ IsSubstr(include_modules, it.name)
                        THEN << [package_name |-> it.package,
                                 module_name |-> it.name,
                                 loader |-> [name |-> module_full_name,
                                             path |-> it.module_finder \o SEP \o it.name \o PY]] >>
                        ELSE << >>)
                    \o YieldFrom(items, k + 1, modules \cup {module_full_name}, include_modules)
               ELSE YieldFrom(items, k + 1, modules, include_modules)

\* find_modules(root, include_pkg, include_modules): the sequence yielded
find_modules(root, include_pkg, include_modules) ==
    LET pkgs == find_packages(root, IF include_pkg # None THEN include_pkg ELSE << <<"*">> >>)
        slashed == [k \in DOMAIN pkgs |-> Replace(pkgs[k], ".", "/")]
        items == Flatten([k \in DOMAIN slashed |->
                    LET r == recursive_iter_modules(root, slashed[k])
                    IN [n \in DOMAIN r |-> [package |-> slashed[k],
                                            name |-> r[n].name,
                                            module_finder |-> r[n].module_finder,
                                            package_path |-> r[n].package_path]]])
    IN YieldFrom(items, 1, {}, include_modules)

\* the collecting loop with the name filter applied to the module's name
FillersOfModule_FilterOnModule(m, test_case) ==
    LET d == ModuleDict(m.loader.name)
        keep(o) == /\ IsCallable(o)
                   /\ HasFillerMetadata(o)
                   /\ ~(test_case # None /\ ~IsSubstr(test_case, m.module_name))
        kept == SelectSeq(d, keep)
    IN [k \in DOMAIN kept |-> [obj |-> kept[k],
                               module_path |-> <<m.package_name, m.module_name>>]]

\* lines 137-150 for one loaded module: the objects appended to `fillers`,
\* each with the module_path it is stamped with
FillersOfModule(m, test_case) ==
    LET d == ModuleDict(m.loader.name)
        keep(o) == /\ IsCallable(o)
                   /\ HasFillerMetadata(o)
                   /\ ~(test_case # None /\ ~IsSubstr(test_case, MetaName(o)))
        kept == SelectSeq(d, keep)
    IN [k \in DOMAIN kept |-> [obj |-> kept[k],
                               module_path |-> <<m.package_name, m.module_name>>]]

\* line 136: module_loader.load_module() raises for a module that cannot be
\* loaded (a syntax error, a failing import)
LoadRaises(m) == m.loader.name = broken

\* the modules the loop of line 129 loads before it ends or load_module
\* raises
RECURSIVE LoadedFrom(_, _)
LoadedFrom(mods, k) ==
    IF k > Len(mods) \/ LoadRaises(mods[k]) THEN << >>
    ELSE <<mods[k]>> \o LoadedFrom(mods, k + 1)

\* the messages of the log: f"searching {module_full_name} for fillers"
\* (line 135), f"skipping - {full_name}" (line 182) and
\* f"filling - {full_name}" (line 190)
Message(what, full_name) == [what |-> what, full_name |-> full_name]

\* line 135: a message for every module the loop of line 129 is handed,
\* the one load_module raises for included
RECURSIVE SearchingFrom(_, _)
SearchingFrom(mods, k) ==
    IF k > Len(mods) THEN << >>
    ELSE <<Message("searching", mods[k].loader.name)>>
         \o (IF LoadRaises(mods[k]) THEN << >> ELSE SearchingFrom(mods, k + 1))

Searching(o) ==
    CHOOSE r \in {SearchingFrom(m, 1) :
                    m \in {find_modules(abspath(FillerPath), o.test_categories,
                                        o.test_module)}} : TRUE

\* whether the loop of line 129 is left by an exception
DiscoveryRaises(o) ==
    \E m \in {find_modules(abspath(FillerPath), o.test_categories, o.test_module)} :
        \E k \in DOMAIN m : LoadRaises(m[k])

\* lines 127-150: the stamped objects in the order they are appended
Collected(o) ==
    LET mods == LoadedFrom(find_modules(abspath(FillerPath), o.test_categories,
                                        o.test_module), 1)
    IN Flatten([k \in DOMAIN mods |-> FillersOfModule(mods[k], o.test_case)])

\* the objects of a sequence c of stamped objects
ObjectsOf(c) == [k \in DOMAIN c |-> c[k].obj]

\* the stamp every unit carries after the stamps of c, in order: the last
\* stamp of an object stays (None for an object never stamped)
StampsOf(c) ==
    [x \in Units |->
        LET ks == {k \in DOMAIN c : c[k].obj = x}
        IN IF ks = {} THEN None
           ELSE c[CHOOSE k \in ks : \A n \in ks : n <= k].module_path]

\* the list `fillers` after the loop (the loop is evaluated once, for c)
Fillers(o) == CHOOSE r \in {ObjectsOf(c) : c \in {Collected(o)}} : TRUE

\* __filler_metadata__["module_path"] of every object after the loop
ModulePaths(o) == CHOOSE r \in {StampsOf(c) : c \in {Collected(o)}} : TRUE

\* ------------------------------------------------------------------------
\* Output path (lines 166-176) and the staleness test (skip_filling)
\* ------------------------------------------------------------------------
\* an output directory that mirrors the package only
OutputDir_PackageOnly(o, module_path) ==
    Join(OutputRoot, IF ~o.no_output_structure THEN <<module_path[1]>> ELSE << >>)

\* lines 168-173: the star applies to the whole conditional expression, so
\* with --no-output-structure the empty string is unpacked to no argument
OutputDir(o, module_path) ==
    Join(OutputRoot, IF ~o.no_output_structure THEN module_path ELSE << >>)

\* line 175
OutputPath(o, module_path, name) == Join(OutputDir(o, module_path), <<name \o JSON>>)

\* line 176
FullName(module_path, name) == DotJoin(module_path \o <<name>>)

\* lines 209-211: the file whose modification time is read
SourceOf(pkg_path, module_path) == Join(pkg_path, module_path) \o PY

\* ------------------------------------------------------------------------
\* Values of the state
\* ------------------------------------------------------------------------
\* line 212: the modification time taken for a missing output file
Epoch == 0

Time == 0..MaxTime

\* the value a unit returns when its execution succeeds
Fixture(u) == [fixture |-> u]
\* a fixture left by an earlier version of the fillers
OldFixture == [fixture |-> "old"]

\* The command lines of the runs: all packages or the sub-package only, all
\* modules or those named ar. The other filter values, --test-case among
\* them, are exercised by SpecFilters below.
Options ==
    [test_categories : {None, << Nvm \o DOT \o Nvt >>},
     test_module : {None, Nar},
     test_case : {None},
     no_output_structure : BOOLEAN,
     no_skip : BOOLEAN,
     max_workers : 1..MaxWorkers]

\* The command lines that differ in the filters: categories that name a
\* package, a sub-package by its dotted name, a sub-package by its last
\* segment only (which matches no package) and a list of two; module and
\* unit name filters that match some, all or none of the names.
FilterOptions ==
    [test_categories : {None, << Nvm >>, << Nvm \o DOT \o Nvt >>, << Nvt >>,
                        << Nvm \o DOT \o Nvt, Nvm >>},
     test_module : {None, Nar, Nme, <<"x">>},
     test_case : {None, <<"a", "d">>, <<"u">>, Nsub},
     no_output_structure : BOOLEAN,
     no_skip : BOOLEAN,
     max_workers : {1}]

\* os.path.exists / os.path.getmtime resolve a relative path against the
\* working directory; the output files are kept under the relative path the
\* program names them by
SourceExists(p) == abspath(p) \in DOMAIN src
SourceMtime(p) == src[abspath(p)]

\* os.makedirs(d, exist_ok=True): d and all its parents
Parents(d) == {SubSeq(d, 1, k) : k \in {n \in 1..Len(d) : n = Len(d) \/ d[n + 1] = "/"}}

\* the output paths the fillers discovered under options o resolve to
PathsOfStamps(o, mp) ==
    {OutputPath(o, mp[u], MetaName(u)) : u \in {x \in Units : mp[x] # None}}

ResolvedPaths(o) == CHOOSE r \in {PathsOfStamps(o, mp) : mp \in {ModulePaths(o)}} : TRUE

\* the directories of these paths
DirsOfStamps(o, mp) ==
    UNION {Parents(OutputDir(o, mp[u])) : u \in {x \in Units : mp[x] # None}}

ResolvedDirs(o) == CHOOSE r \in {DirsOfStamps(o, mp) : mp \in {ModulePaths(o)}} : TRUE

\* The files as the code expects them: no callable bound twice, every
\* module loads, every fixture serializes
Sound == [alias : {FALSE}, broken : {None}, io_faults : {FALSE}]

\* The files that depart from that: add bound to a second name in
\* f/vm/vt/ar.py; one of the modules of vm/vt fails to load; json.dump may
\* raise
Environments ==
    [alias : BOOLEAN,
     broken : {None, Nvm \o DOT \o Nvt \o DOT \o Nar, Nvm \o DOT \o Nvt \o DOT \o Nme},
     io_faults : BOOLEAN]

\* The command lines run in these environments: the sub-package, not
\* flattened
EnvOptions ==
    [test_categories : {<< Nvm \o DOT \o Nvt >>},
     test_module : {None},
     test_case : {None},
     no_output_structure : {FALSE},
     no_skip : BOOLEAN,
     max_workers : 1..MaxWorkers]

\* The command lines that submit every unit they reach: all packages (the
\* submitting loop is left by an exception with tasks queued) or the
\* sub-package only
LiveOptions ==
    [test_categories : {None, << Nvm \o DOT \o Nvt >>},
     test_module : {None},
     test_case : {None},
     no_output_structure : {FALSE},
     no_skip : {TRUE},
     max_workers : 1..MaxWorkers]

\* The state before the first run: a command line; the files below the
\* filler path and the modification times of the sources (a time above the
\* clock is a file stamped in the future); and either an empty output
\* directory or one holding a fixture, written at time 1, at every path the
\* run will resolve.
InitWith(optionSet, sourceTimes, environments) ==
    /\ opts \in optionSet
    /\ src \in sourceTimes
    /\ \E e \in environments :
          /\ alias = e.alias
          /\ broken = e.broken
          /\ io_faults = e.io_faults
    /\ \E prior \in BOOLEAN :
          /\ out = [p \in (IF prior THEN ResolvedPaths(opts) ELSE {}) |->
                       [mtime |-> 1, content |-> OldFixture]]
          /\ dirs = IF prior THEN ResolvedDirs(opts) ELSE {}
    /\ clock = 1
    /\ run = 1
    /\ pc = "discover"
    /\ fillers = << >>
    /\ meta = [u \in Units |-> None]
    /\ i = 1
    /\ futures = << >>
    /\ j = 1
    /\ error = "none"
    /\ out0 = out
    /\ prevError = "none"
    /\ log = << >>
    /\ surfaced = << >>
    /\ started = << >>

\* the sources all saved at the same time
SameTimes == {t \in [SourceFiles -> Time] : \A f, g \in SourceFiles : t[f] = t[g]}

\* vm/ar.py and vm/vt/ar.py have any times; vm/vt/me.py was saved together
\* with vm/ar.py (no run reads both of these two)
Init ==
    InitWith(Options,
             {t \in [SourceFiles -> Time] :
                 t[DefiningFile("mul2")] = t[DefiningFile("add1")]},
             Sound)

InitFilters == InitWith(FilterOptions, SameTimes, Sound)

InitEnv == InitWith(EnvOptions, SameTimes, Environments)

InitLive == InitWith(LiveOptions, SameTimes, Sound)

\* ------------------------------------------------------------------------
\* skip_filling (lines 208-213)
\* ------------------------------------------------------------------------
\* os.path.getmtime of the source raises FileNotFoundError when the file
\* that pkg_path, module_path name does not exist
skip_filling_raises(path, pkg_path, module_path) ==
    ~SourceExists(SourceOf(pkg_path, module_path))

\* the staleness test with a strict comparison
skip_filling_Strict(path, pkg_path, module_path) ==
    LET last_modified_time == SourceMtime(SourceOf(pkg_path, module_path))
        last_filled_time == IF path \in DOMAIN out THEN out[path].mtime ELSE Epoch
    IN last_modified_time < last_filled_time

\* the value returned when it does exist
skip_filling(path, pkg_path, module_path) ==
    LET last_modified_time == SourceMtime(SourceOf(pkg_path, module_path))
        last_filled_time == IF path \in DOMAIN out THEN out[path].mtime ELSE Epoch
    IN last_modified_time <= last_filled_time

\* ------------------------------------------------------------------------
\* The control thread: Filler.fill
\* ------------------------------------------------------------------------
Finished(f) == f.state \in {"done", "failed"}

\* the content of a file that open(path, "w") has truncated and json.dump
\* has not, or not completely, written
Truncated == [fixture |-> "truncated"]

\* a discovery that goes on to the submitting loop with the fillers
\* collected before load_module raised
Discover_Continue ==
    /\ pc = "discover"
    /\ fillers' = Fillers(opts)
    /\ meta' = ModulePaths(opts)
    /\ log' = Searching(opts)
    /\ i' = 1
    /\ error' = IF DiscoveryRaises(opts) THEN "ImportError" ELSE error
    /\ dirs' = dirs \cup Parents(OutputRoot)
    /\ pc' = "submit"
    /\ UNCHANGED <<opts, src, alias, broken, io_faults, out, clock, run, futures, j,
                   out0, prevError, surfaced, started>>

\* lines 125-159: discovery, then the output directory is made; an exception
\* of load_module leaves fill before line 152
Discover ==
    /\ pc = "discover"
    /\ fillers' = Fillers(opts)
    /\ meta' = ModulePaths(opts)
    /\ log' = Searching(opts)
    /\ i' = 1
    /\ IF DiscoveryRaises(opts)
          THEN /\ error' = "ImportError"
               /\ pc' = "done"
               /\ UNCHANGED dirs
          ELSE /\ dirs' = dirs \cup Parents(OutputRoot)
               /\ pc' = "submit"
               /\ UNCHANGED error
    /\ UNCHANGED <<opts, src, alias, broken, io_faults, out, clock, run, futures, j,
                   out0, prevError, surfaced, started>>

\* lines 165-186: one iteration of the submitting loop
Submit ==
    /\ pc = "submit"
    /\ i <= Len(fillers)
    /\ LET filler == fillers[i]
           name == MetaName(filler)
           module_path == meta[filler]
           output_dir == OutputDir(opts, module_path)
           path == OutputPath(opts, module_path, name)
           full_name == FullName(module_path, name)
       IN /\ dirs' = dirs \cup Parents(output_dir)
          /\ IF skip_filling_raises(path, FillerPath, module_path)
                THEN /\ error' = "FileNotFoundError"
                     /\ pc' = "shutdown"
                     /\ UNCHANGED <<i, futures, log>>
                ELSE IF skip_filling(path, FillerPath, module_path) /\ ~opts.no_skip
                THEN /\ log' = Append(log, Message("skipping", full_name))
                     /\ i' = i + 1
                     /\ UNCHANGED <<pc, error, futures>>
                ELSE /\ futures' = Append(futures, [state |-> "pending",
                                                    path |-> path,
                                                    full_name |-> full_name,
                                                    unit |-> filler,
                                                    idx |-> i])
                     /\ i' = i + 1
                     /\ UNCHANGED <<pc, error, log>>
    /\ UNCHANGED <<opts, src, alias, broken, io_faults, out, clock, run, fillers, meta,
                   j, out0, prevError, surfaced, started>>

\* the submitting loop is exhausted
EndSubmit ==
    /\ pc = "submit"
    /\ i > Len(fillers)
    /\ pc' = "collect"
    /\ j' = 1
    /\ UNCHANGED <<opts, src, alias, broken, io_faults, out, dirs, clock, run, fillers,
                   meta, i, futures, error, out0, prevError, log, surfaced, started>>

\* what future.result() re-raises: the exception of the unit's execution,
\* as the unit raised it; lines 189-190 attach nothing to it
Reraised(f) == [unit |-> f.unit, address |-> None]

\* the file at `path` after open(path, "w")
Opened(files, path) ==
    [p \in DOMAIN files \cup {path} |->
        IF p = path THEN [mtime |-> clock, content |-> Truncated] ELSE files[p]]

\* a collecting loop that does not wait: a task that has not ended when its
\* turn comes counts as failed
Collect_NoWait ==
    /\ pc = "collect"
    /\ j <= Len(futures)
    /\ IF futures[j].state # "done"
          THEN /\ error' = "ExecutionFailure"
               /\ surfaced' = Append(surfaced, Reraised(futures[j]))
               /\ pc' = "shutdown"
               /\ UNCHANGED <<out, log>>
          ELSE /\ log' = Append(log, Message("filling", futures[j].full_name))
               /\ out' = Opened(out, futures[j].path)
               /\ pc' = "dump"
               /\ UNCHANGED <<error, surfaced>>
    /\ UNCHANGED <<opts, src, alias, broken, io_faults, dirs, clock, run, fillers, meta,
                   i, futures, j, out0, prevError, started>>

\* a collecting loop that takes the target of future number j from filler
\* number j of the list `fillers`, not from the tuple kept with the future
Collect_PathByIndex ==
    /\ pc = "collect"
    /\ j <= Len(futures)
    /\ Finished(futures[j])
    /\ IF futures[j].state = "failed"
          THEN /\ error' = "ExecutionFailure"
               /\ surfaced' = Append(surfaced, Reraised(futures[j]))
               /\ pc' = "shutdown"
               /\ UNCHANGED <<out, log>>
          ELSE /\ log' = Append(log, Message("filling", futures[j].full_name))
               /\ out' = Opened(out, OutputPath(opts, meta[fillers[j]], MetaName(fillers[j])))
               /\ pc' = "dump"
               /\ UNCHANGED <<error, surfaced>>
    /\ UNCHANGED <<opts, src, alias, broken, io_faults, dirs, clock, run, fillers, meta,
                   i, futures, j, out0, prevError, started>>

\* lines 188-191: an iteration of the collecting loop up to the opening of
\* the file; future.result() waits for the task and re-raises what the task
\* raised
Collect ==
    /\ pc = "collect"
    /\ j <= Len(futures)
    /\ Finished(futures[j])
    /\ IF futures[j].state = "failed"
          THEN /\ error' = "ExecutionFailure"
               /\ surfaced' = Append(surfaced, Reraised(futures[j]))
               /\ pc' = "shutdown"
               /\ UNCHANGED <<out, log>>
          ELSE /\ log' = Append(log, Message("filling", futures[j].full_name))
               /\ out' = Opened(out, futures[j].path)
               /\ pc' = "dump"
               /\ UNCHANGED <<error, surfaced>>
    /\ UNCHANGED <<opts, src, alias, broken, io_faults, dirs, clock, run, fillers, meta,
                   i, futures, j, out0, prevError, started>>

\* lines 192-198: json.dump writes the fixture and the file is closed, or
\* json.dump raises on a value it cannot serialize and the file is closed
\* as it is
Dump(ok) ==
    /\ pc = "dump"
    /\ ok \/ io_faults
    /\ IF ok
          THEN /\ out' = [out EXCEPT ![futures[j].path].content = Fixture(futures[j].unit)]
               /\ j' = j + 1
               /\ pc' = "collect"
               /\ UNCHANGED error
          ELSE /\ error' = "TypeError"
               /\ pc' = "shutdown"
               /\ UNCHANGED <<out, j>>
    /\ UNCHANGED <<opts, src, alias, broken, io_faults, dirs, clock, run, fillers, meta,
                   i, futures, out0, prevError, log, surfaced, started>>

\* the collecting loop is exhausted
EndCollect ==
    /\ pc = "collect"
    /\ j > Len(futures)
    /\ pc' = "shutdown"
    /\ UNCHANGED <<opts, src, alias, broken, io_faults, out, dirs, clock, run, fillers,
                   meta, i, futures, j, error, out0, prevError, log, surfaced, started>>

\* a with block that is left without waiting for the tasks
Shutdown_NoWait ==
    /\ pc = "shutdown"
    /\ pc' = "done"
    /\ UNCHANGED <<opts, src, alias, broken, io_faults, out, dirs, clock, run, fillers,
                   meta, i, futures, j, error, out0, prevError, log, surfaced, started>>

\* line 161: leaving the with block, normally or by an exception, calls
\* executor.shutdown(wait=True), which returns when every submitted task
\* has ended
Shutdown ==
    /\ pc = "shutdown"
    /\ \A k \in DOMAIN futures : Finished(futures[k])
    /\ pc' = "done"
    /\ UNCHANGED <<opts, src, alias, broken, io_faults, out, dirs, clock, run, fillers,
                   meta, i, futures, j, error, out0, prevError, log, surfaced, started>>

\* ------------------------------------------------------------------------
\* The worker threads of the ThreadPoolExecutor (line 161, line 185)
\* ------------------------------------------------------------------------
Running == {k \in DOMAIN futures : futures[k].state = "running"}

\* a pool that starts a thread for every task, whatever max_workers is
StartTask_Unbounded(k) ==
    /\ pc \in {"submit", "collect", "dump", "shutdown"}
    /\ futures[k].state = "pending"
    /\ \A n \in 1..(k - 1) : futures[n].state # "pending"
    /\ futures' = [futures EXCEPT ![k].state = "running"]
    /\ started' = Append(started, k)
    /\ UNCHANGED <<opts, src, alias, broken, io_faults, out, dirs, clock, run, pc,
                   fillers, meta, i, j, error, out0, prevError, log, surfaced>>

\* a worker takes the oldest queued task; there are at most max_workers
\* workers
StartTask(k) ==
    /\ pc \in {"submit", "collect", "dump", "shutdown"}
    /\ futures[k].state = "pending"
    /\ \A n \in 1..(k - 1) : futures[n].state # "pending"
    /\ Cardinality(Running) < opts.max_workers
    /\ futures' = [futures EXCEPT ![k].state = "running"]
    /\ started' = Append(started, k)
    /\ UNCHANGED <<opts, src, alias, broken, io_faults, out, dirs, clock, run, pc,
                   fillers, meta, i, j, error, out0, prevError, log, surfaced>>

\* filler(t8n, b11r, "NoProof") returns its fixture or raises
FinishTask(k, ok) ==
    /\ futures[k].state = "running"
    /\ futures' = [futures EXCEPT ![k].state = IF ok THEN "done" ELSE "failed"]
    /\ UNCHANGED <<opts, src, alias, broken, io_faults, out, dirs, clock, run, pc,
                   fillers, meta, i, j, error, out0, prevError, log, surfaced, started>>

\* ------------------------------------------------------------------------
\* The tool is run again, later, with the same command line
\* ------------------------------------------------------------------------
Rerun ==
    /\ pc = "done"
    /\ run < MaxRuns
    /\ run' = run + 1
    /\ clock' = clock + 1
    /\ pc' = "discover"
    /\ fillers' = << >>
    /\ meta' = [u \in Units |-> None]
    /\ i' = 1
    /\ futures' = << >>
    /\ j' = 1
    /\ prevError' = error
    /\ error' = "none"
    /\ out0' = out
    /\ log' = << >>
    /\ surfaced' = << >>
    /\ started' = << >>
    /\ UNCHANGED <<opts, src, alias, broken, io_faults, out, dirs>>

Next ==
    \/ Discover
    \/ Submit
    \/ EndSubmit
    \/ Collect
    \/ \E ok \in BOOLEAN : Dump(ok)
    \/ EndCollect
    \/ Shutdown
    \/ \E k \in DOMAIN futures : StartTask(k)
    \/ \E k \in DOMAIN futures : \E ok \in BOOLEAN : FinishTask(k, ok)
    \/ Rerun

Spec == Init /\ [][Next]_vars

\* the same program, started with the command lines of FilterOptions
SpecFilters == InitFilters /\ [][Next]_vars

\* the same program, started in the environments of Environments
SpecEnv == InitEnv /\ [][Next]_vars

\* The scheduling the liveness of the pool rests on: an idle worker takes a
\* queued task, and the execution of a unit ends (the external tools
\* return). Nothing is assumed of the control thread.
Fairness ==
    /\ WF_vars(\E k \in DOMAIN futures : StartTask(k))
    /\ WF_vars(\E k \in DOMAIN futures : \E ok \in BOOLEAN : FinishTask(k, ok))

SpecLive == InitLive /\ [][Next]_vars /\ Fairness

\* ------------------------------------------------------------------------
\* Vocabulary of the properties
\* ------------------------------------------------------------------------
\* filler number idx of the list has been submitted / has been skipped
Submitted(idx) == \E k \in DOMAIN futures : futures[k].idx = idx
Skipped(idx) == idx < i /\ ~Submitted(idx)

\* the output path filler number idx resolves to
PathOf(idx) == OutputPath(opts, meta[fillers[idx]], MetaName(fillers[idx]))

\* the result of future number k has been written (the collecting loop has
\* passed it)
Written(k) == k < j

\* the modification time of the file that defines unit u
OwnSourceTime(u) == src[DefiningFile(u)]

\* ------------------------------------------------------------------------
\* C1  Isolation: when the run ends because the execution of a unit raised,
\*     every submitted unit whose execution succeeded has had its result
\*     written, wherever it stands in the submission order.
\* ------------------------------------------------------------------------
C1_Isolation ==
    (pc = "done" /\ error = "ExecutionFailure")
        => \A k \in DOMAIN futures : futures[k].state = "done" => Written(k)

\* ------------------------------------------------------------------------
\* C2  Staleness: with the force flag unset, a discovered unit whose output
\*     file exists is submitted when its source is strictly newer than the
\*     output and skipped when its source is older than or as old as it.
\* ------------------------------------------------------------------------
C2_Staleness ==
    ~opts.no_skip =>
        \A idx \in 1..(i - 1) :
            PathOf(idx) \in DOMAIN out0 =>
                /\ OwnSourceTime(fillers[idx]) > out0[PathOf(idx)].mtime => Submitted(idx)
                /\ OwnSourceTime(fillers[idx]) <= out0[PathOf(idx)].mtime => Skipped(idx)

\* ------------------------------------------------------------------------
\* C3  Force flag: with --no-skip every discovered unit has been submitted
\*     when the run ends, whatever the timestamps and whether or not the
\*     output and the computed source file exist.
\* ------------------------------------------------------------------------
C3_ForceSubmitsAll ==
    (pc = "done" /\ opts.no_skip) => \A idx \in DOMAIN fillers : Submitted(idx)

\* ------------------------------------------------------------------------
\* C4  Output path uniqueness: without flattening, two distinct discovered
\*     units never resolve to the same output path.
\* ------------------------------------------------------------------------
C4_UniquePaths ==
    (pc # "discover" /\ ~opts.no_output_structure) =>
        \A a, b \in DOMAIN fillers :
            fillers[a] # fillers[b] => PathOf(a) # PathOf(b)

\* ------------------------------------------------------------------------
\* C5  Completeness: after a run in which no execution failed (not
\*     flattened), every discovered unit that was not skipped has been
\*     executed and the file at its output path holds its own result.
\* ------------------------------------------------------------------------
C5_Completeness ==
    (/\ pc = "done"
     /\ ~opts.no_output_structure
     /\ \A k \in DOMAIN futures : futures[k].state # "failed")
        => \A idx \in DOMAIN fillers :
              ~Skipped(idx) =>
                  /\ \E k \in DOMAIN futures : futures[k].idx = idx /\ futures[k].state = "done"
                  /\ PathOf(idx) \in DOMAIN out
                  /\ out[PathOf(idx)].content = Fixture(fillers[idx])

\* ------------------------------------------------------------------------
\* C10 Missing output: for a unit whose output file does not exist the
\*     staleness test answers "do not skip", whatever the time of the source.
\* ------------------------------------------------------------------------
C10_MissingOutputNeverSkipped ==
    (/\ pc = "submit"
     /\ i <= Len(fillers)
     /\ PathOf(i) \notin DOMAIN out
     /\ ~skip_filling_raises(PathOf(i), FillerPath, meta[fillers[i]]))
        => ~skip_filling(PathOf(i), FillerPath, meta[fillers[i]])

\* ------------------------------------------------------------------------
\* C6  Idempotence, as claimed: a second run with no source changes and the
\*     staleness test enabled submits nothing, has skipped every discovered
\*     unit when it ends and leaves the content of every output file as the
\*     run before it left it. (No action of the model changes a source file.)
\* ------------------------------------------------------------------------
Contents(files) == [p \in DOMAIN files |-> files[p].content]

Outcome(u) ==
    IF \E k \in DOMAIN futures : futures[k].unit = u /\ futures[k].state = "failed"
        THEN "raise"
        ELSE "ok"

\* the units the serial reference executes, in order, with their paths;
\* raised when the staleness test cannot read a source
RECURSIVE SerialSubmits(_, _)
SerialSubmits(c, k) ==
    IF k > Len(c) THEN [raised |-> FALSE, subs |-> << >>]
    ELSE LET u == c[k].obj
             mp == ModulePaths(opts)[u]
             path == OutputPath(opts, mp, MetaName(u))
             source == abspath(SourceOf(FillerPath, mp))
             filled == IF path \in DOMAIN out0 THEN out0[path].mtime ELSE Epoch
             rest == SerialSubmits(c, k + 1)
         IN IF source \notin DOMAIN src THEN [raised |-> TRUE, subs |-> << >>]
            ELSE IF src[source] <= filled /\ ~opts.no_skip THEN rest
            ELSE [raised |-> rest.raised,
                  subs |-> <<[unit |-> u, path |-> path]>> \o rest.subs]

RECURSIVE SerialWrites(_, _, _)
SerialWrites(files, subs, k) ==
    IF k > Len(subs) \/ Outcome(subs[k].unit) = "raise" THEN files
    ELSE SerialWrites([p \in DOMAIN files \cup {subs[k].path} |->
                          IF p = subs[k].path
                             THEN [mtime |-> clock, content |-> Fixture(subs[k].unit)]
                             ELSE files[p]],
                      subs, k + 1)

SerialResult ==
    LET d == SerialSubmits(Collected(opts), 1)
    IN IF d.raised THEN out0 ELSE SerialWrites(out0, d.subs, 1)

C9_WorkerLimitIndependence == pc = "done" => out = SerialResult

\* a run with two workers that wrote the results of two units
C9_Witness ==
    /\ pc = "done"
    /\ opts.max_workers > 1
    /\ Len(futures) >= 2
    /\ j > 2

\* ------------------------------------------------------------------------
\* C7  Filter composition, as claimed: the discovered units are those that
\*     lie in a package matching the category filter (or in a sub-package
\*     of one) and whose own name contains the unit-name filter; when there
\*     is none, the list is empty and the run ends without an error.
\* ------------------------------------------------------------------------
Range(q) == {q[k] : k \in DOMAIN q}

\* the dotted names of the package that contains u's module and of the
\* packages around it
PackageChain(u) == {Replace(p, "/", ".") : p \in Parents(OwningPackage(u))}

InCategory(u, C) ==
    C = None \/ \E k \in DOMAIN C : \E p \in PackageChain(u) : FnMatch(p, C[k])

NameContains(u, N) == N = None \/ IsSubstr(N, MetaName(u))

ModuleNameContains(u, M) == M = None \/ IsSubstr(M, OwningModule(u))

C7_FilterComposition ==
    pc # "discover" =>
        LET expected == {u \in Units : /\ InCategory(u, opts.test_categories)
                                       /\ NameContains(u, opts.test_case)}
        IN /\ Range(fillers) = expected
           /\ (expected = {} /\ pc = "done") => error = "none"

\* C7 as amended: the module filter (--test-module, a substring of the
\* module's name) is a third set of the intersection.
C7_FilterCompositionWithModule ==
    pc # "discover" =>
        LET expected == {u \in Units : /\ InCategory(u, opts.test_categories)
                                       /\ ModuleNameContains(u, opts.test_module)
                                       /\ NameContains(u, opts.test_case)}
        IN /\ Range(fillers) = expected
           /\ (expected = {} /\ pc = "done") => error = "none"

\* all three filters are set and select some units but not all
C7_Witness ==
    /\ pc = "done"
    /\ opts.test_categories # None
    /\ opts.test_module # None
    /\ opts.test_case # None
    /\ fillers # << >>
    /\ Range(fillers) # Units

C11_FailureReporting ==
    pc = "done" =>
        \A k \in DOMAIN futures :
            futures[k].state = "failed" =>
                \/ \E n \in DOMAIN surfaced :
                      /\ surfaced[n].unit = futures[k].unit
                      /\ surfaced[n].address = futures[k].full_name
                \/ \E n \in DOMAIN log : log[n].full_name = futures[k].full_name

\* ------------------------------------------------------------------------
\* C12 Bounded concurrency: at most max_workers units are executing at any
\*     time; with max_workers = 1 at most one is executing (no two
\*     executions overlap) and the workers have taken the futures in the
\*     order of their submission: 1, 2, 3, ...
\* ------------------------------------------------------------------------
C12_BoundedConcurrency ==
    /\ Cardinality(Running) <= opts.max_workers
    /\ opts.max_workers = 1 =>
          /\ Cardinality(Running) <= 1
          /\ started = [n \in 1..Len(started) |-> n]
          /\ \A k \in DOMAIN futures : futures[k].state # "pending" <=> k <= Len(started)

\* one worker: the first unit has ended, the second is executing and a
\* third is waiting for the worker
C12_Witness ==
    /\ opts.max_workers = 1
    /\ started = <<1, 2>>
    /\ Running = {2}
    /\ \E k \in DOMAIN futures : futures[k].state = "pending"

\* ------------------------------------------------------------------------
\* C13 No cancellation: every future that has been submitted is eventually
\*     finished (its unit returned or raised), whatever has happened on the
\*     control thread in between, a surfaced failure included; and whenever
\*     the run has ended, every submitted future is finished.
\* ------------------------------------------------------------------------
\* the positions a future can have in the list `futures`
FutureIds == 1..(Cardinality(Units) + 1)

C13_NoCancellation ==
    /\ [](pc = "done" => \A k \in DOMAIN futures : Finished(futures[k]))
    /\ \A k \in FutureIds :
          (k \in DOMAIN futures) ~> (k \in DOMAIN futures /\ Finished(futures[k]))

\* the failure of the first unit has been surfaced and the run has ended
\* with the unit submitted after it finished, although it was taken by
\* a worker only after the first had ended
C13_Witness ==
    /\ pc = "done"
    /\ error = "ExecutionFailure"
    /\ opts.max_workers = 1
    /\ surfaced # << >>
    /\ Len(futures) >= 2
    /\ futures[1].state = "failed"
    /\ futures[2].state = "done"
    /\ started = <<1, 2>>

\* ------------------------------------------------------------------------
\* C14 Owning-package stamping: the package path stamped on a discovered
\*     unit is the package that directly contains the module defining it,
\*     and the source file the staleness test reads for the unit
\*     (<filler path>/<stamped path>/<module>.py) is the file defining it.
\* ------------------------------------------------------------------------
C14_OwningPackageStamped ==
    pc # "discover" =>
        \A idx \in DOMAIN fillers :
            LET u == fillers[idx]
            IN /\ meta[u][1] = OwningPackage(u)
               /\ abspath(SourceOf(FillerPath, meta[u])) = DefiningFile(u)

\* ------------------------------------------------------------------------
\* C15 Module deduplication: in one discovery no module is handed to the
\*     loading loop twice (the log of line 135 names every module at most
\*     once), also when a package and a package around it both match the
\*     category filter; and the occurrence yielded is the first one met:
\*     the package it is yielded with, and stamped on its units, is the
\*     outermost matching package around the module, which find_packages
\*     lists first.
\* ------------------------------------------------------------------------
\* the modules named by the "searching" messages of the log
Searched == SelectSeq(log, LAMBDA m : m.what = "searching")

\* the packages around u's module, the one containing it included, that
\* match the category filter C
MatchingAround(u, C) ==
    {p \in Parents(OwningPackage(u)) :
        C = None \/ \E k \in DOMAIN C : FnMatch(Replace(p, "/", "."), C[k])}

C15_ModuleDeduplication ==
    pc # "discover" =>
        /\ \A a, b \in DOMAIN Searched :
              a # b => Searched[a].full_name # Searched[b].full_name
        /\ \A idx \in DOMAIN fillers :
              LET around == MatchingAround(fillers[idx], opts.test_categories)
              IN /\ meta[fillers[idx]][1] \in around
                 /\ \A p \in around : Len(meta[fillers[idx]][1]) <= Len(p)

\* the category filter matches vm and vm.vt, so that the modules of vm/vt
\* are met twice, and both of them have been searched
C15_Witness ==
    /\ pc = "submit"
    /\ opts.test_categories = << Nvm \o DOT \o Nvt, Nvm >>
    /\ Len(Searched) = 3
    /\ \E a \in DOMAIN Searched : Searched[a].full_name = Nvm \o DOT \o Nvt \o DOT \o Nme
    /\ Cardinality(MatchingAround("mul2", opts.test_categories)) = 2

\* ------------------------------------------------------------------------
\* C16 No duplicate work: within one run no unit is submitted to the pool
\*     more than once, also when the tagged callable is bound to more than
\*     one top-level name.
\* ------------------------------------------------------------------------
C16_NoDuplicateWork ==
    \A a, b \in DOMAIN futures : a # b => futures[a].unit # futures[b].unit

\* ------------------------------------------------------------------------
\* C17 Discovery precedes execution: while discovery has not finished no
\*     future exists, no unit has been started and no output file has been
\*     written; and a run in which the loading of a module raised has ended
\*     there, with no unit submitted or executed, no output file written
\*     and no directory made.
\* ------------------------------------------------------------------------
C17_DiscoveryPrecedesExecution ==
    /\ pc = "discover" => (futures = << >> /\ started = << >> /\ out = out0)
    /\ error = "ImportError" =>
          /\ pc = "done"
          /\ futures = << >>
          /\ started = << >>
          /\ out = out0
          /\ \A d \in dirs : \E p \in DOMAIN out0 : d \in Parents(p)

\* the loading of f/vm/vt/me.py raised after the units of f/vm/vt/ar.py had
\* been collected, with --no-skip: the run has ended with nothing executed
C17_Witness ==
    /\ pc = "done"
    /\ error = "ImportError"
    /\ broken = Nvm \o DOT \o Nvt \o DOT \o Nme
    /\ opts.no_skip
    /\ fillers # << >>
    /\ futures = << >>
    /\ out = out0

\* ------------------------------------------------------------------------
\* C18 Serialized writes: no output file is touched before the submitting
\*     loop has ended; at most one file is open for writing at a time, and
\*     only while the control thread is at the json.dump of the collecting
\*     loop; and when a flattened run that made all its submissions has
\*     ended, a path that several submitted units share holds the result
\*     of the last submitted of those whose execution returned a result.
\* ------------------------------------------------------------------------
\* the files that are open for writing
OpenForWriting == {p \in DOMAIN out : out[p].content = Truncated}

\* the futures with target p
Targeting(p) == {k \in DOMAIN futures : futures[k].path = p}

\* the futures with target p whose execution returned a result
Executed(p) == {k \in DOMAIN futures : futures[k].path = p /\ futures[k].state = "done"}

C18_SerializedWrites ==
    /\ pc \in {"discover", "submit"} => out = out0
    /\ Cardinality(OpenForWriting) <= 1
    /\ OpenForWriting # {} => (pc = "dump" /\ OpenForWriting = {futures[j].path})
    /\ (pc = "done" /\ opts.no_output_structure /\ i > Len(fillers)) =>
          \A p \in {futures[k].path : k \in DOMAIN futures} :
              (Cardinality(Targeting(p)) >= 2 /\ Executed(p) # {}) =>
                  /\ p \in DOMAIN out
                  /\ out[p].content =
                        Fixture(futures[CHOOSE k \in Executed(p) :
                                            \A n \in Executed(p) : n <= k].unit)

\* ------------------------------------------------------------------------
\* C19 Skipped units are untouched: in a run that is not flattened, the
\*     output file of a unit the staleness test has skipped is at every
\*     moment of the run as the run found it: not created if it was
\*     missing, and with the content and the modification time it had.
\* ------------------------------------------------------------------------
C19_SkippedUntouched ==
    ~opts.no_output_structure =>
        \A idx \in DOMAIN fillers :
            Skipped(idx) =>
                /\ PathOf(idx) \in DOMAIN out <=> PathOf(idx) \in DOMAIN out0
                /\ PathOf(idx) \in DOMAIN out => out[PathOf(idx)] = out0[PathOf(idx)]

\* a run, not flattened, that skipped the first unit of the list, whose
\* fixture is still the old one, and has written the result of a later one
C19_Witness ==
    /\ pc = "done"
    /\ ~opts.no_output_structure
    /\ Len(fillers) >= 2
    /\ Skipped(1)
    /\ PathOf(1) \in DOMAIN out
    /\ out[PathOf(1)].content = OldFixture
    /\ \E k \in DOMAIN futures : Written(k) /\ out[futures[k].path].content = Fixture(futures[k].unit)

\* ------------------------------------------------------------------------
\* C20 No stale skip after a failed write: with the staleness test enabled,
\*     a unit is never skipped on the strength of an output file that does
\*     not hold a complete result (a file that an earlier run opened for
\*     writing and whose json.dump then raised).
\* ------------------------------------------------------------------------
C20_NoStaleSkipAfterFailedWrite ==
    ~opts.no_skip =>
        \A idx \in DOMAIN fillers :
            (Skipped(idx) /\ PathOf(idx) \in DOMAIN out0) =>
                out0[PathOf(idx)].content # Truncated

====
